---- MODULE Spec2Model ----
(***************************************************************************)
(* Bus-servo driver BusServoController (LowLevelControl.py): the packet    *)
(* codec, the PING / READ / WRITE instructions, the motion command and the *)
(* telemetry readers, as a state machine over one serial transport.        *)
(*                                                                         *)
(* A byte string is a sequence of numbers in 0..255 (1-based here, 0-based *)
(* in the source: resp[k] of the source is resp[k+1] of the model).        *)
(* A float is kept exact: a decoded quantity is a pair of integers         *)
(* [num, den], and an angle is a whole number of degrees.                  *)
(***************************************************************************)
EXTENDS Integers, Sequences, FiniteSets, TLC

VARIABLES
    op,     \* the call that has just run ("idle": none, the caller is between calls)
    call,   \* its arguments
    tx,     \* the byte strings it handed to ser.write, in order
    rx,     \* the byte string ser.read returned to it (<<>> if it never read)
    data,   \* what _read_bytes returned to a telemetry reader
    ret,    \* how the call ended: a returned value, or a raised exception
    io,     \* the calls it made on the serial port, in order
    present,    \* the ids of the devices on the bus
    inbuf,      \* the serial port's input buffer: bytes received, not yet read
    scan,       \* the caller running scan_servos: its position and locals
    poll,       \* the caller reading telemetry: its position and locals
    hist,       \* what has happened on the bus so far (not program state)
    mem,        \* the telemetry registers of the devices: address -> byte
    cli,        \* a run of the command-line interface: position, output, exit code
    sim         \* the simulation shim SO100Follower: its maps and stepping thread

callVars == <<op, call, tx, rx, data, ret, io>>

busVars == <<present, mem, cli, inbuf, scan, poll, hist>>

vars == <<op, call, tx, rx, data, ret, io, present, inbuf, scan, poll, hist, mem, cli, sim>>

(***************************************************************************)
(* Bounds of the model                                                     *)
(***************************************************************************)
MaxParams == 3          \* longest params given to a direct send_packet call
MaxReadLen == 2         \* longest register read requested of _read_bytes
MaxChkLen == 3          \* longest byte string given to a direct _checksum call
AngleMargin == 10       \* degrees tried below 0 and above 360

\* scan_servos' default max_id: the highest addressable id (0xFE is broadcast)
MaxId == 253

MaxSends == 2           \* send_action calls made on one SO100Follower

(***************************************************************************)
(* Python values                                                           *)
(***************************************************************************)
Bytes == 0..255

Returned(v) == [kind |-> "return", value |-> v]

Raised(e) == [kind |-> "raise", value |-> e]

NoResult == [kind |-> "none", value |-> "none"]

Min(a, b) == IF a < b THEN a ELSE b

\* s[a:b] of Python for 0 <= a, 0 <= b: clipped to the string, never an error
Slice(s, a, b) == IF a >= Min(b, Len(s)) THEN <<>> ELSE SubSeq(s, a + 1, Min(b, Len(s)))

\* ~x of Python on an int
BitNot(x) == -x - 1

\* x & 0xFF, x & 0xFFF, ... : x & (2^w - 1) of Python, also for x < 0
Mask(x, w) == x % (2 ^ w)

RECURSIVE Sum(_)
Sum(s) == IF s = <<>> THEN 0 ELSE Head(s) + Sum(Tail(s))

\* b with bit k inverted
FlipBit(b, k) == IF (b \div (2 ^ k)) % 2 = 1 THEN b - 2 ^ k ELSE b + 2 ^ k

(***************************************************************************)
(* Packet codec                                                            *)
(***************************************************************************)
ChecksumNoMask(data_bytes) == BitNot(Sum(data_bytes))

\* _checksum: total = sum(data_bytes) & 0xFF; return (~total) & 0xFF
Checksum(data_bytes) ==
    LET total == Mask(Sum(data_bytes), 8)
    IN  Mask(BitNot(total), 8)

FullPacketLenOffByOne(servo_id, instruction, params) ==
    LET length == Len(params) + 3
        packet == <<servo_id, length, instruction>> \o params
    IN  <<255, 255>> \o packet \o <<Checksum(packet)>>

\* send_packet: the byte string handed to ser.write
FullPacket(servo_id, instruction, params) ==
    LET length == Len(params) + 2
        packet == <<servo_id, length, instruction>> \o params
        checksum == Checksum(packet)
    IN  <<255, 255>> \o packet \o <<checksum>>

PingResultNoIdCheck(servo_id, response) ==
    IF response # <<>> /\ Len(response) >= 6
    THEN IF response[1] = 255 /\ response[2] = 255
         THEN Checksum(<<response[3], response[4], response[5]>>) = response[6]
         ELSE FALSE
    ELSE FALSE

PingResultChecksumAtError(servo_id, response) ==
    IF response # <<>> /\ Len(response) >= 6
    THEN IF response[1] = 255 /\ response[2] = 255 /\ response[3] = servo_id
         THEN Checksum(<<response[3], response[4]>>) = response[5]
         ELSE FALSE
    ELSE FALSE

PingResultErrorZeroOnly(servo_id, response) ==
    IF response # <<>> /\ Len(response) >= 6
    THEN IF response[1] = 255 /\ response[2] = 255 /\ response[3] = servo_id
         THEN Checksum(<<response[3], response[4], response[5]>>) = response[6]
              /\ response[5] = 0
         ELSE FALSE
    ELSE FALSE

\* ping, from the response on: the value it returns
PingResult(servo_id, response) ==
    IF response # <<>> /\ Len(response) >= 6
    THEN IF response[1] = 255 /\ response[2] = 255 /\ response[3] = servo_id
         THEN LET resp_id == response[3]
                  length == response[4]
                  error == response[5]
                  checksum == response[6]
                  calc == Checksum(<<resp_id, length, error>>)
              IN  calc = checksum
         ELSE FALSE
    ELSE FALSE

\* the tuple ping unpacks from an ack: resp_id, length, error, checksum
PingFields(response) ==
    [resp_id |-> response[3], length |-> response[4],
     error |-> response[5], checksum |-> response[6]]

\* a call of ser.write with n bytes, a call of ser.read for n bytes
WriteCall(n) == [kind |-> "write", n |-> n]

ReadCall(n) == [kind |-> "read", n |-> n]

\* send_packet: its calls on the serial port (one ser.write of the packet)
SendPacketIO(packet) == <<WriteCall(Len(packet))>>

PingIOResend(servo_id) ==
    SendPacketIO(FullPacket(servo_id, 1, <<>>)) \o SendPacketIO(FullPacket(servo_id, 1, <<>>))
    \o <<ReadCall(6)>>

\* ping: send_packet, then read_packet(6)
PingIO(servo_id) == SendPacketIO(FullPacket(servo_id, 1, <<>>)) \o <<ReadCall(6)>>

\* _read_bytes: send_packet, then read_packet(6 + length)
ReadBytesIO(servo_id, start_addr, length) ==
    SendPacketIO(FullPacket(servo_id, 2, <<start_addr, length>>)) \o <<ReadCall(6 + length)>>

ReadBytesResultShortCheck(servo_id, length, resp) ==
    IF resp = <<>> \/ Len(resp) < 6
    THEN Returned(<<>>)
    ELSE IF resp[1] = 255 /\ resp[2] = 255 /\ resp[3] = servo_id
         THEN IF 2 + resp[4] >= Len(resp)
              THEN Raised("IndexError")
              ELSE IF Checksum(Slice(resp, 2, 2 + resp[4])) = resp[2 + resp[4] + 1]
                   THEN Returned(Slice(resp, 5, 5 + length))
                   ELSE Returned(<<>>)
         ELSE Returned(<<>>)

\* _read_bytes, from the response on: the bytes it returns, or the IndexError
\* of resp[2 + resp[3]] when that index is past the end of resp
ReadBytesResult(servo_id, length, resp) ==
    IF resp = <<>> \/ Len(resp) < 6 + length
    THEN Returned(<<>>)
    ELSE IF resp[1] = 255 /\ resp[2] = 255 /\ resp[3] = servo_id
         THEN LET data_section == Slice(resp, 2, 2 + resp[4])
                  index == 2 + resp[4]
              IN  IF index >= Len(resp)
                  THEN Raised("IndexError")
                  ELSE LET checksum == resp[index + 1]
                           calc == Checksum(data_section)
                       IN  IF calc = checksum
                           THEN Returned(Slice(resp, 5, 5 + length))
                           ELSE Returned(<<>>)
         ELSE Returned(<<>>)

(***************************************************************************)
(* Telemetry readers                                                       *)
(***************************************************************************)
Quantities == {"position", "speed", "load", "voltage", "temperature"}

\* start_addr of each reader's _read_bytes call
StartAddr(q) ==
    CASE q = "position" -> 56
      [] q = "speed" -> 58
      [] q = "load" -> 60
      [] q = "voltage" -> 62
      [] q = "temperature" -> 63

\* length of each reader's _read_bytes call
ByteLength(q) ==
    CASE q = "position" -> 2
      [] q = "speed" -> 2
      [] q = "load" -> 2
      [] q = "voltage" -> 1
      [] q = "temperature" -> 1

Ratio(n, d) == [num |-> n, den |-> d]

\* data[0] | (data[1] << 8)
LittleEndian16(d) == d[1] + 256 * d[2]

DecodeSpeedUnmasked(q, d) ==
    CASE q = "position" -> Ratio(LittleEndian16(d) * 360, 4096)
      [] q = "speed" -> Ratio(LittleEndian16(d), 1)
      [] q = "load" -> Ratio(Mask(LittleEndian16(d), 10) * 100, 1023)
      [] q = "voltage" -> Ratio(d[1], 10)
      [] q = "temperature" -> Ratio(d[1], 1)

\* what a reader computes from the bytes _read_bytes gave it (non-empty)
Decode(q, d) ==
    CASE q = "position" -> Ratio(LittleEndian16(d) * 360, 4096)
      [] q = "speed" -> Ratio(Mask(LittleEndian16(d), 10), 1)
      [] q = "load" -> Ratio(Mask(LittleEndian16(d), 10) * 100, 1023)
      [] q = "voltage" -> Ratio(d[1], 10)
      [] q = "temperature" -> Ratio(d[1], 1)

NoneReturned == [kind |-> "return_none", value |-> "None"]

\* read_position .. read_temperature, from the result of _read_bytes on:
\* an exception of _read_bytes propagates, empty bytes give None
ReaderResult(q, got) ==
    IF got.kind = "raise" THEN got
    ELSE IF got.value # <<>> THEN Returned(Decode(q, got.value))
    ELSE NoneReturned

(***************************************************************************)
(* Motion command                                                          *)
(***************************************************************************)
\* an optional int argument: <<>> is None, <<v>> is the int v
None == <<>>

Some(v) == <<v>>

\* struct.pack('<H', v)
PackH(v) == <<v % 256, v \div 256>>

\* int(angle_deg / 360.0 * 4096) for a whole number of degrees >= 0: the
\* quotient is either a whole number (angle a multiple of 45, exact in binary
\* floating point) or at least 1/45 away from one, so int() is the floor
PosUnits(angle_deg) == (angle_deg * 4096) \div 360

\* set_position: the position field, lines 55-58
PosVal(angle_deg) ==
    LET a1 == IF angle_deg < 0 THEN 0 ELSE angle_deg
        a2 == IF a1 > 360 THEN 360 ELSE a1
        pos_val == Mask(PosUnits(a2), 12)
    IN  IF pos_val > 4095 THEN 4095 ELSE pos_val

TimeValNoUpperClamp(time_ms) ==
    LET time_val == IF time_ms = None THEN 0 ELSE time_ms[1]
    IN  IF time_val < 0 THEN 0 ELSE time_val

\* set_position: the duration field, lines 61-63
TimeVal(time_ms) ==
    LET time_val == IF time_ms = None THEN 0 ELSE time_ms[1]
    IN  IF time_val < 0 THEN 0 ELSE IF time_val > 65535 THEN 65535 ELSE time_val

\* set_position: the speed field, lines 65-67
SpeedVal(speed) ==
    LET speed_val == IF speed = None THEN 0 ELSE speed[1]
    IN  IF speed_val < 0 THEN 0 ELSE IF speed_val > 1023 THEN 1023 ELSE speed_val

MotionParamsAccFirst(angle_deg, time_ms, speed, acceleration) ==
    LET fields == PackH(PosVal(angle_deg)) \o PackH(TimeVal(time_ms)) \o PackH(SpeedVal(speed))
    IN  IF acceleration # None
        THEN <<Mask(acceleration[1], 8)>> \o fields
        ELSE fields

\* set_position: the params of its WRITE, lines 70-74
MotionParams(angle_deg, time_ms, speed, acceleration) ==
    LET fields == PackH(PosVal(angle_deg)) \o PackH(TimeVal(time_ms)) \o PackH(SpeedVal(speed))
    IN  IF acceleration # None
        THEN fields \o <<Mask(acceleration[1], 8)>>
        ELSE fields

SetPositionIOWithStatusRead(servo_id, params) ==
    SendPacketIO(FullPacket(servo_id, 3, params)) \o <<ReadCall(6)>>

\* set_position: send_packet and nothing else (no read_packet)
SetPositionIO(servo_id, params) == SendPacketIO(FullPacket(servo_id, 3, params))

(***************************************************************************)
(* The inputs tried: device ids, and what ser.read can return              *)
(***************************************************************************)
\* ids given to the calls whose response is varied byte by byte
IdSample == {1, 177}

ErrSample == {0, 32}

DataSample == {0, 75}

InstructionSample == {1, 2, 3, 255}

ParamSample == {0, 56, 255}

ChkSample == {0, 1, 127, 128, 255}

TimeSample == {-5, 0, 1500, 65535, 70000}

SpeedSample == {-1, 0, 500, 1023, 2000}

AccSample == {-1, 0, 100, 255, 300}

\* all byte strings over S of length n, and of length at most n
RECURSIVE SeqsOfLen(_, _)
SeqsOfLen(S, n) ==
    IF n = 0 THEN {<<>>}
    ELSE {Append(s, b) : s \in SeqsOfLen(S, n - 1), b \in S}

SeqsUpTo(S, n) == UNION {SeqsOfLen(S, k) : k \in 0..n}

\* the status frame a device sends: header, id, LEN = len(d) + 2, ERROR,
\* the data bytes, and the checksum of all of them from the id on
StatusFrame(id, err, d) ==
    LET body == <<id, Len(d) + 2, err>> \o d
    IN  <<255, 255>> \o body \o <<Checksum(body)>>

\* data of n bytes: the sampled bytes, and as last byte the complement sum of
\* the id, LEN, ERROR and data bytes before it, or that with its lowest bit
\* inverted
DataChoices(id, err, n) ==
    IF n = 0 THEN {<<>>}
    ELSE SeqsOfLen(DataSample, n)
         \cup {Append(s, Checksum(<<id, n + 2, err>> \o s)) :
                 s \in SeqsOfLen(DataSample, n - 1)}
         \cup {Append(s, FlipBit(Checksum(<<id, n + 2, err>> \o s), 0)) :
                 s \in SeqsOfLen(DataSample, n - 1)}

StatusFrames(id, n) ==
    UNION {{StatusFrame(id, err, d) : d \in DataChoices(id, err, n)} : err \in ErrSample}

\* the values tried in place of byte p of frame f: each single-bit change of
\* it, 0 and 255, and for the LEN byte (p = 4) every small length
Replacements(f, p) ==
    {FlipBit(f[p], k) : k \in 0..7} \cup {0, 255}
    \cup (IF p = 4 THEN 0..(Len(f) + 1) ELSE {})

Damaged(f) == UNION {{[f EXCEPT ![p] = v] : v \in Replacements(f, p)} : p \in 1..Len(f)}

Prefixes(f) == {SubSeq(f, 1, k) : k \in 0..Len(f)}

\* the status frames of the other sampled devices
ForeignFrames(id, n) == UNION {StatusFrames(other, n) : other \in IdSample \ {id}}

\* frames of 6 + n bytes whose LEN byte says one more than the frame holds,
\* with the checksum of [ID, LEN, ERROR, DATA...] as last byte
Mislengthed(id, n) ==
    UNION {{LET body == <<id, n + 3, err>> \o d
            IN  <<255, 255>> \o body \o <<Checksum(body)>> : d \in SeqsOfLen(DataSample, n)} :
           err \in ErrSample}

\* what ser.read(6 + n) can return to a request sent to id: a status frame
\* of that device, one with one byte replaced, one with another LEN, a
\* status frame of another device, or the first bytes of any of these
Responses(id, n) ==
    LET frames == StatusFrames(id, n)
                  \cup UNION {Damaged(f) : f \in StatusFrames(id, n)}
                  \cup Mislengthed(id, n)
                  \cup ForeignFrames(id, n)
    IN  UNION {Prefixes(f) : f \in frames}

\* the acks of every addressable device, with error 0 or not
Acks(id) == {StatusFrame(id, err, <<>>) : err \in ErrSample}

\* the PING just written, read back from a line that echoes what is sent
Echo(id) == FullPacket(id, 1, <<>>)

\* what ser.read(6) returns to ping(id): any response for the sampled ids,
\* and for every other id its ack or nothing; or the echo of the request
PingResponses(id) ==
    (IF id \in IdSample THEN Responses(id, 0) ELSE Acks(id) \cup {<<>>}) \cup {Echo(id)}

StartSample == {0, 56, 255}

Optional(S) == {None} \cup {Some(v) : v \in S}

AngleSample == {-AngleMargin, 0, 90, 180, 360, 360 + AngleMargin}

\* the arguments given to set_position: every whole angle with the defaults
\* of the other arguments, and the sampled angles with every sampled
\* duration, speed and acceleration
MotionInputs ==
    {[angle_deg |-> a, time_ms |-> Some(0), speed |-> Some(0), acceleration |-> None] :
        a \in (-AngleMargin)..(360 + AngleMargin)}
    \cup [angle_deg : AngleSample, time_ms : Optional(TimeSample),
          speed : Optional(SpeedSample), acceleration : Optional(AccSample)]

(***************************************************************************)
(* The state machine: one action per call on the controller                *)
(***************************************************************************)
\* no call made yet on the controller
CallsIdle ==
    /\ op = "idle"
    /\ call = [port |-> "port"]
    /\ tx = <<>>
    /\ rx = <<>>
    /\ data = NoResult
    /\ ret = NoResult
    /\ io = <<>>

\* no caller running scan_servos or reading telemetry on a bus
NoScan == [pc |-> "off", max_id |-> 0, k |-> 0, found |-> <<>>, late |-> <<>>]

NoPoll == [pc |-> "off", servo_id |-> 0, k |-> 0, values |-> <<>>, late |-> <<>>]

NoHist ==
    [pinged |-> <<>>, results |-> <<>>, faults |-> {}, late |-> "never",
     lastRead |-> <<>>, lastBy |-> <<"none", 0>>, own |-> <<>>, moved |-> FALSE]

\* the registers 0x38..0x3F of a device
DefaultMem == [a \in 56..63 |-> (a * 7) % 256]

\* the command-line interface is not running
NoCli == [pc |-> "off", command |-> "none", code |-> <<>>, out |-> <<>>]

\* no SO100Follower is connected
NoSim == [pc |-> "off"]

\* __init__: the port is open, nothing was written or read
Init ==
    /\ CallsIdle
    /\ present = {}
    /\ inbuf = <<>>
    /\ scan = NoScan
    /\ poll = NoPoll
    /\ hist = NoHist
    /\ mem = DefaultMem
    /\ cli = NoCli
    /\ sim = NoSim

\* _checksum(data_bytes)
ChecksumCall ==
    /\ op = "idle"
    /\ \E b \in SeqsUpTo(ChkSample, MaxChkLen) :
        /\ op' = "_checksum"
        /\ call' = [data_bytes |-> b]
        /\ tx' = <<>>
        /\ rx' = <<>>
        /\ data' = NoResult
        /\ ret' = Returned(Checksum(b))
        /\ io' = <<>>
        /\ UNCHANGED <<busVars, sim>>

\* send_packet(servo_id, instruction, params): one ser.write
SendPacketCall ==
    /\ op = "idle"
    /\ \E id \in IdSample, ins \in InstructionSample, params \in SeqsUpTo(ParamSample, MaxParams) :
        /\ op' = "send_packet"
        /\ call' = [servo_id |-> id, instruction |-> ins, params |-> params]
        /\ tx' = <<FullPacket(id, ins, params)>>
        /\ rx' = <<>>
        /\ data' = NoResult
        /\ ret' = NoneReturned
        /\ io' = SendPacketIO(FullPacket(id, ins, params))
        /\ UNCHANGED <<busVars, sim>>

\* ping(servo_id): send PING, read 6 bytes, validate
Ping ==
    /\ op = "idle"
    /\ \E id \in 0..MaxId :
        \E resp \in PingResponses(id) :
            /\ op' = "ping"
            /\ call' = [servo_id |-> id]
            /\ tx' = <<FullPacket(id, 1, <<>>)>>
            /\ rx' = resp
            /\ data' = NoResult
            /\ ret' = Returned(PingResult(id, resp))
            /\ io' = PingIO(id)
            /\ UNCHANGED <<busVars, sim>>

\* _read_bytes(servo_id, start_addr, length): send READ, read 6 + length
\* bytes, validate
ReadBytesCall ==
    /\ op = "idle"
    /\ \E id \in IdSample, start \in StartSample, length \in 1..MaxReadLen :
        \E resp \in Responses(id, length) :
            /\ op' = "_read_bytes"
            /\ call' = [servo_id |-> id, start_addr |-> start, length |-> length]
            /\ tx' = <<FullPacket(id, 2, <<start, length>>)>>
            /\ rx' = resp
            /\ data' = ReadBytesResult(id, length, resp)
            /\ ret' = data'
            /\ io' = ReadBytesIO(id, start, length)
            /\ UNCHANGED <<busVars, sim>>

\* read_position .. read_temperature: _read_bytes at the quantity's
\* register, then the decode
ReadTelemetry ==
    /\ op = "idle"
    /\ \E id \in IdSample, q \in Quantities :
        \E resp \in Responses(id, ByteLength(q)) :
            /\ op' = "read"
            /\ call' = [servo_id |-> id, quantity |-> q,
                        start_addr |-> StartAddr(q), length |-> ByteLength(q)]
            /\ tx' = <<FullPacket(id, 2, <<StartAddr(q), ByteLength(q)>>)>>
            /\ rx' = resp
            /\ data' = ReadBytesResult(id, ByteLength(q), resp)
            /\ ret' = ReaderResult(q, data')
            /\ io' = ReadBytesIO(id, StartAddr(q), ByteLength(q))
            /\ UNCHANGED <<busVars, sim>>

\* set_position: one WRITE, no read
SetPosition ==
    /\ op = "idle"
    /\ \E id \in IdSample, m \in MotionInputs :
        /\ op' = "set_position"
        /\ call' = [servo_id |-> id, angle_deg |-> m.angle_deg, time_ms |-> m.time_ms,
                    speed |-> m.speed, acceleration |-> m.acceleration]
        /\ tx' = <<FullPacket(id, 3,
                     MotionParams(m.angle_deg, m.time_ms, m.speed, m.acceleration))>>
        /\ rx' = <<>>
        /\ data' = NoResult
        /\ ret' = NoneReturned
        /\ io' = SetPositionIO(id, MotionParams(m.angle_deg, m.time_ms, m.speed, m.acceleration))
        /\ UNCHANGED <<busVars, sim>>

\* the caller has the call's result and goes on to its next call
Return ==
    /\ op # "idle"
    /\ op' = "idle"
    /\ call' = [port |-> "port"]
    /\ tx' = <<>>
    /\ rx' = <<>>
    /\ data' = NoResult
    /\ ret' = NoResult
    /\ io' = <<>>
    /\ UNCHANGED <<busVars, sim>>

Next ==
    \/ Return
    \/ ChecksumCall
    \/ SendPacketCall
    \/ Ping
    \/ ReadBytesCall
    \/ ReadTelemetry
    \/ SetPosition

Spec == Init /\ [][Next]_vars

(***************************************************************************)
(* The controller on a bus: scan_servos and the telemetry read sequence,   *)
(* one step per transport call, with the devices and the port's input      *)
(* buffer between them                                                     *)
(***************************************************************************)
\* the ids of the devices on the bus
PresentSets == {{}, {1, 5, 12}, {1, 2}}

\* the max_id given to scan_servos (253 is the default)
ScanMaxIds == {0, 1, 2, 20, MaxId, 254}

\* the id whose telemetry is read
PollIds == {1, 3}

\* the bytes of a frame, each with the request it answers
Tagged(frame, tag) == [i \in 1..Len(frame) |-> [b |-> frame[i], to |-> tag]]

Untag(s) == [i \in 1..Len(s) |-> s[i].b]

\* the control-table bytes a device returns to a READ
Registers(start_addr, length) == [i \in 1..length |-> mem[start_addr + i - 1]]

\* the status frames that may come back for a written frame: none from an
\* absent id, the addressed device's for PING or READ, any one device's for
\* the broadcast id, and for a WRITE none or one that reports an error
DeviceReplies(packet) ==
    LET id == packet[3]
        instruction == packet[5]
        repliers == IF id = 254 THEN present ELSE present \cap {id}
        status(d) == IF instruction = 1 THEN StatusFrame(d, 0, <<>>)
                     ELSE StatusFrame(d, 0, Registers(packet[6], packet[7]))
    IN  IF repliers = {} \/ instruction \notin {1, 2, 3}
        THEN {<<>>}
        ELSE IF instruction = 3
             THEN {<<>>} \cup {StatusFrame(d, err, <<>>) : d \in repliers, err \in ErrSample \ {0}}
             ELSE {status(d) : d \in repliers}

\* how many bytes of a reply are in the input buffer before the read times
\* out: all of them, or none or half of them when the reply is late
Arrivals(reply) ==
    IF hist.late = "possible" /\ reply # <<>>
    THEN {0, Len(reply) \div 2, Len(reply)}
    ELSE {Len(reply)}

\* ser.read(n) with a timeout: up to n bytes from the front of the buffer
SerRead(n, buf) ==
    [got |-> SubSeq(buf, 1, Min(n, Len(buf))),
     rest |-> SubSeq(buf, Min(n, Len(buf)) + 1, Len(buf))]

ScanRangeFromZero(max_id) == [i \in 1..(max_id + 1) |-> i - 1]

ScanRangeExclusive(max_id) == [i \in 1..(max_id - 1) |-> i]

\* range(1, max_id+1)
ScanRange(max_id) == [i \in 1..max_id |-> i]

\* the sid of the loop's current iteration
ScanSid == ScanRange(scan.max_id)[scan.k]

ScanTag == <<"scan", ScanSid>>

\* a scan or a read sequence may start on a bus with some devices
BusInit ==
    /\ CallsIdle
    /\ present \in PresentSets
    /\ inbuf = <<>>
    /\ scan = [NoScan EXCEPT !.pc = "idle"]
    /\ poll = NoPoll
    /\ hist = [NoHist EXCEPT !.late = "possible"]
    /\ mem = DefaultMem
    /\ cli = NoCli
    /\ sim = NoSim

\* scan_servos(max_id) is called: found = []
ScanStart ==
    /\ scan.pc = "idle"
    /\ \E max_id \in ScanMaxIds :
          scan' = [scan EXCEPT !.pc = "loop", !.max_id = max_id, !.k = 1, !.found = <<>>]
    /\ UNCHANGED <<present, mem, cli, inbuf, poll, hist>>
    /\ UNCHANGED <<callVars, sim>>

\* ping(sid), send_packet: the PING is written; the addressed device replies
ScanPingWrite ==
    /\ scan.pc = "loop"
    /\ scan.k <= Len(ScanRange(scan.max_id))
    /\ \E reply \in DeviceReplies(FullPacket(ScanSid, 1, <<>>)) :
        \E n \in Arrivals(reply) :
            /\ inbuf' = inbuf \o Tagged(SubSeq(reply, 1, n), ScanTag)
            /\ scan' = [scan EXCEPT !.pc = "sent",
                                    !.late = Tagged(SubSeq(reply, n + 1, Len(reply)), ScanTag)]
            /\ hist' = [hist EXCEPT !.pinged = Append(@, ScanSid),
                                    !.late = IF n < Len(reply) THEN "happened" ELSE @]
    /\ UNCHANGED <<present, mem, cli, poll>>
    /\ UNCHANGED <<callVars, sim>>

\* ping(sid), read_packet(6) and the checks on the response; then
\* found.append(sid) if ping returned True, and the next iteration
ScanPingRead ==
    /\ scan.pc = "sent"
    /\ LET r == SerRead(6, inbuf)
           result == PingResult(ScanSid, Untag(r.got))
       IN  /\ inbuf' = r.rest \o scan.late
           /\ scan' = [scan EXCEPT !.pc = "loop", !.k = @ + 1, !.late = <<>>,
                                   !.found = IF result THEN Append(@, ScanSid) ELSE @]
           /\ hist' = [hist EXCEPT !.results = Append(@, result),
                                   !.lastRead = r.got, !.lastBy = ScanTag]
    /\ UNCHANGED <<present, mem, cli, poll>>
    /\ UNCHANGED <<callVars, sim>>

\* ser.write raises (serial.SerialException): nothing in ping or scan_servos
\* catches it
ScanWriteFault ==
    /\ scan.pc = "loop"
    /\ scan.k <= Len(ScanRange(scan.max_id))
    /\ scan' = [scan EXCEPT !.pc = "raised"]
    /\ hist' = [hist EXCEPT !.faults = @ \cup {<<ScanSid, "write">>}]
    /\ UNCHANGED <<present, mem, cli, inbuf, poll>>
    /\ UNCHANGED <<callVars, sim>>

\* ser.read raises (serial.SerialException): nothing in ping or scan_servos
\* catches it
ScanReadFault ==
    /\ scan.pc = "sent"
    /\ scan' = [scan EXCEPT !.pc = "raised", !.late = <<>>]
    /\ inbuf' = inbuf \o scan.late
    /\ hist' = [hist EXCEPT !.faults = @ \cup {<<ScanSid, "read">>}]
    /\ UNCHANGED <<present, mem, cli, poll>>
    /\ UNCHANGED <<callVars, sim>>

\* the loop is over: return found
ScanReturn ==
    /\ scan.pc = "loop"
    /\ scan.k > Len(ScanRange(scan.max_id))
    /\ scan' = [scan EXCEPT !.pc = "done"]
    /\ UNCHANGED <<present, mem, cli, inbuf, poll, hist>>
    /\ UNCHANGED <<callVars, sim>>

BusNext ==
    \/ ScanStart
    \/ ScanPingWrite
    \/ ScanPingRead
    \/ ScanWriteFault
    \/ ScanReadFault
    \/ ScanReturn

\* one caller running scan_servos on a bus
BusSpec == BusInit /\ [][BusNext]_vars

\* the readers in the order the read command calls them
QuantityOrder == <<"position", "speed", "load", "voltage", "temperature">>

\* the reader of the sequence's current call
PollQuantity == QuantityOrder[poll.k]

PollTag == <<"poll", poll.k>>

\* a second caller may read telemetry while the first scans; every reply
\* arrives within its timeout
ConcInit ==
    /\ CallsIdle
    /\ present \in PresentSets
    /\ inbuf = <<>>
    /\ scan = [NoScan EXCEPT !.pc = "idle"]
    /\ poll = [NoPoll EXCEPT !.pc = "idle"]
    /\ hist = NoHist
    /\ mem = DefaultMem
    /\ cli = NoCli
    /\ sim = NoSim

\* the read sequence starts for one servo id
PollStart ==
    /\ poll.pc = "idle"
    /\ \E id \in PollIds :
          poll' = [poll EXCEPT !.pc = "call", !.servo_id = id, !.k = 1]
    /\ UNCHANGED <<present, mem, cli, inbuf, scan, hist>>
    /\ UNCHANGED <<callVars, sim>>

\* a reader's _read_bytes, send_packet: the READ is written; the addressed
\* device replies
PollWrite ==
    /\ poll.pc = "call"
    /\ poll.k <= Len(QuantityOrder)
    /\ \E reply \in DeviceReplies(FullPacket(poll.servo_id, 2,
                        <<StartAddr(PollQuantity), ByteLength(PollQuantity)>>)) :
        \E n \in Arrivals(reply) :
            /\ inbuf' = inbuf \o Tagged(SubSeq(reply, 1, n), PollTag)
            /\ poll' = [poll EXCEPT !.pc = "sent",
                                    !.late = Tagged(SubSeq(reply, n + 1, Len(reply)), PollTag)]
            /\ hist' = [hist EXCEPT !.own = Append(@, SubSeq(reply, 1, n)),
                                    !.late = IF n < Len(reply) THEN "happened" ELSE @]
    /\ UNCHANGED <<present, mem, cli, scan>>
    /\ UNCHANGED <<callVars, sim>>

\* a reader's _read_bytes, ser.read(6 + length) and the checks on the
\* response; the reader returns its value or None, or the IndexError ends
\* the sequence
PollRead ==
    /\ poll.pc = "sent"
    /\ LET r == SerRead(6 + ByteLength(PollQuantity), inbuf)
           got == ReadBytesResult(poll.servo_id, ByteLength(PollQuantity), Untag(r.got))
           value == ReaderResult(PollQuantity, got)
       IN  /\ inbuf' = r.rest \o poll.late
           /\ poll' = IF value.kind = "raise"
                      THEN [poll EXCEPT !.pc = "raised", !.late = <<>>]
                      ELSE [poll EXCEPT !.pc = "call", !.k = @ + 1, !.late = <<>>,
                                        !.values = Append(@, value)]
           /\ hist' = [hist EXCEPT !.lastRead = r.got, !.lastBy = PollTag]
    /\ UNCHANGED <<present, mem, cli, scan>>
    /\ UNCHANGED <<callVars, sim>>

\* the five readers have returned
PollReturn ==
    /\ poll.pc = "call"
    /\ poll.k > Len(QuantityOrder)
    /\ poll' = [poll EXCEPT !.pc = "done"]
    /\ UNCHANGED <<present, mem, cli, inbuf, scan, hist>>
    /\ UNCHANGED <<callVars, sim>>

ConcNext ==
    \/ ScanStart
    \/ ScanPingWrite
    \/ ScanPingRead
    \/ ScanReturn
    \/ PollStart
    \/ PollWrite
    \/ PollRead
    \/ PollReturn

\* two callers on one controller: nothing in the class orders their steps
ConcSpec == ConcInit /\ [][ConcNext]_vars

(***************************************************************************)
(* One caller issuing set_position and then pings or telemetry reads       *)
(***************************************************************************)
\* the ids a motion command is sent to
MoveIds == {1, 2, 3}

\* one caller on a bus: it may scan or read telemetry; replies are timely
SeqInit ==
    /\ CallsIdle
    /\ present \in PresentSets
    /\ mem = DefaultMem
    /\ inbuf = <<>>
    /\ \/ scan = [NoScan EXCEPT !.pc = "idle"] /\ poll = NoPoll
       \/ scan = NoScan /\ poll = [NoPoll EXCEPT !.pc = "idle"]
    /\ hist = NoHist
    /\ cli = NoCli
    /\ sim = NoSim

\* set_position(id, 90) before the scan or the reads: the WRITE is written
\* and nothing is read; the device may send a status reply to it
MoveWrite ==
    /\ scan.pc \in {"idle", "off"}
    /\ poll.pc \in {"idle", "off"}
    /\ ~hist.moved
    /\ \E id \in MoveIds :
        \E reply \in DeviceReplies(FullPacket(id, 3, MotionParams(90, Some(0), Some(0), None))) :
            inbuf' = inbuf \o Tagged(reply, <<"move", id>>)
    /\ hist' = [hist EXCEPT !.moved = TRUE]
    /\ UNCHANGED <<present, mem, cli, scan, poll>>
    /\ UNCHANGED <<callVars, sim>>

SeqNext ==
    \/ MoveWrite
    \/ ScanStart
    \/ ScanPingWrite
    \/ ScanPingRead
    \/ ScanReturn
    \/ PollStart
    \/ PollWrite
    \/ PollRead
    \/ PollReturn

\* one caller: a motion command, then pings or reads
SeqSpec == SeqInit /\ [][SeqNext]_vars

(***************************************************************************)
(* The command-line interface: one command per run on a bus                *)
(***************************************************************************)
\* n data bytes of a register that _read_bytes accepts from device id: the
\* last one is the complement sum of [id, n + 2, 0] and the bytes before it
AcceptedData(id, n) ==
    LET before == [i \in 1..(n - 1) |-> 0]
    IN  Append(before, Checksum(<<id, n + 2, 0>> \o before))

\* the registers, with those of the quantities in qs holding such data for
\* device 1
MemWith(qs) ==
    [a \in 56..63 |->
        IF \E q \in qs : a \in StartAddr(q)..(StartAddr(q) + ByteLength(q) - 1)
        THEN LET q == CHOOSE q \in qs : a \in StartAddr(q)..(StartAddr(q) + ByteLength(q) - 1)
             IN  AcceptedData(1, ByteLength(q))[a - StartAddr(q) + 1]
        ELSE DefaultMem[a]]

MemChoices == {MemWith(qs) : qs \in {{}, {"speed"}, {"position", "load"}, Quantities}}

\* what the read command prints from the five values it has read
ReadOutput(values) ==
    IF values[1].kind = "return_none"
    THEN <<"did not respond">>
    ELSE <<"Angle">>
         \o (IF values[2].kind # "return_none" THEN <<"Speed">> ELSE <<>>)
         \o (IF values[3].kind # "return_none" THEN <<"Load">> ELSE <<>>)
         \o (IF values[4].kind # "return_none" THEN <<"Voltage">> ELSE <<>>)
         \o (IF values[5].kind # "return_none" THEN <<"Temperature">> ELSE <<>>)

\* the arguments are parsed; the port is about to be opened
CliInit ==
    /\ CallsIdle
    /\ present \in PresentSets
    /\ mem \in MemChoices
    /\ inbuf = <<>>
    /\ scan = NoScan
    /\ poll = NoPoll
    /\ hist = [NoHist EXCEPT !.late = "possible"]
    /\ cli = [NoCli EXCEPT !.pc = "start"]
    /\ sim = NoSim

Exited(code, out) == [pc |-> "exited", command |-> cli.command, code |-> Some(code), out |-> out]

\* BusServoController(args.port) raises: the message is printed, sys.exit(1)
CliOpenFail ==
    /\ cli.pc = "start"
    /\ cli' = Exited(1, <<"Could not open port">>)
    /\ UNCHANGED <<present, mem, inbuf, scan, poll, hist>>
    /\ UNCHANGED <<callVars, sim>>

\* scan: controller.scan_servos() with the default max_id
CliScan ==
    /\ cli.pc = "start"
    /\ cli' = [cli EXCEPT !.pc = "run", !.command = "scan"]
    /\ scan' = [scan EXCEPT !.pc = "loop", !.max_id = MaxId, !.k = 1, !.found = <<>>]
    /\ UNCHANGED <<present, mem, inbuf, poll, hist>>
    /\ UNCHANGED <<callVars, sim>>

\* scan: scan_servos has returned; the ids or "No servos found." is
\* printed, the port closed, and the script ends
CliScanExit ==
    /\ cli.pc = "run" /\ cli.command = "scan"
    /\ scan.pc = "done"
    /\ cli' = Exited(0, IF scan.found # <<>> THEN <<"Servos detected">>
                                            ELSE <<"No servos found">>)
    /\ UNCHANGED <<present, mem, inbuf, scan, poll, hist>>
    /\ UNCHANGED <<callVars, sim>>

\* read: the five readers are called for args.id
CliRead ==
    /\ cli.pc = "start"
    /\ cli' = [cli EXCEPT !.pc = "run", !.command = "read"]
    /\ \E id \in PollIds :
          poll' = [poll EXCEPT !.pc = "call", !.servo_id = id, !.k = 1]
    /\ UNCHANGED <<present, mem, inbuf, scan, hist>>
    /\ UNCHANGED <<callVars, sim>>

\* read: the five readers have returned; the lines are printed, the port
\* closed, and the script ends
CliReadExit ==
    /\ cli.pc = "run" /\ cli.command = "read"
    /\ poll.pc = "done"
    /\ cli' = Exited(0, ReadOutput(poll.values))
    /\ UNCHANGED <<present, mem, inbuf, scan, poll, hist>>
    /\ UNCHANGED <<callVars, sim>>

\* move: set_position writes its frame; "Commanded ..." is printed, the
\* port closed, and the script ends
CliMove ==
    /\ cli.pc = "start"
    /\ \E id \in PollIds :
        \E reply \in DeviceReplies(FullPacket(id, 3, MotionParams(90, Some(0), Some(0), None))) :
            inbuf' = inbuf \o Tagged(reply, <<"move", id>>)
    /\ cli' = [Exited(0, <<"Commanded">>) EXCEPT !.command = "move"]
    /\ UNCHANGED <<present, mem, scan, poll, hist>>
    /\ UNCHANGED <<callVars, sim>>

\* move: ser.write raises in set_position; nothing catches it, so the
\* interpreter prints the traceback and ends with exit status 1
CliMoveFault ==
    /\ cli.pc = "start"
    /\ cli' = [Exited(1, <<"Traceback">>) EXCEPT !.command = "move"]
    /\ hist' = [hist EXCEPT !.faults = @ \cup {<<0, "write">>}]
    /\ UNCHANGED <<present, mem, inbuf, scan, poll>>
    /\ UNCHANGED <<callVars, sim>>

\* an exception leaves scan_servos or a reader: nothing in the script
\* catches it, so the interpreter prints the traceback and ends with exit
\* status 1
CliUncaught ==
    /\ cli.pc = "run"
    /\ scan.pc = "raised" \/ poll.pc = "raised"
    /\ cli' = Exited(1, <<"Traceback">>)
    /\ UNCHANGED <<present, mem, inbuf, scan, poll, hist>>
    /\ UNCHANGED <<callVars, sim>>

CliNext ==
    \/ CliOpenFail
    \/ CliScan
    \/ CliScanExit
    \/ CliRead
    \/ CliReadExit
    \/ CliMove
    \/ CliMoveFault
    \/ CliUncaught
    \/ ScanPingWrite
    \/ ScanPingRead
    \/ ScanWriteFault
    \/ ScanReadFault
    \/ ScanReturn
    \/ PollWrite
    \/ PollRead
    \/ PollReturn

\* one run of the script
CliSpec == CliInit /\ [][CliNext]_vars

(***************************************************************************)
(* The simulation shim SO100Follower (so100_follower_sim.py): send_action  *)
(* and the background stepping thread. A map is a function from its keys;  *)
(* degrees are whole numbers.                                              *)
(***************************************************************************)
\* the keys that end with ".pos"
PosKeys == {"shoulder_pan.pos", "gripper.pos"}

EmptyMap == [k \in {} |-> 0]

\* what get_observation gave connect(): every joint at 0, or {} when it raised
ObsChoices == {EmptyMap, [k \in PosKeys |-> 0]}

\* the actions given to send_action
SimActions ==
    {[k \in {"shoulder_pan.pos"} |-> 3],
     [k \in PosKeys |-> IF k = "gripper.pos" THEN 1 ELSE -2],
     [k \in {"gripper.pos", "gripper.vel"} |-> IF k = "gripper.pos" THEN 0 ELSE 5]}

\* max_deg_per_s * dt, in whole degrees per step
StepSample == {-1, 0, 1, 2}

Abs(x) == IF x < 0 THEN -x ELSE x

\* max(0.0, max_deg_per_s * dt)
MaxDegPerStep(v) == IF v < 0 THEN 0 ELSE v

RateLimitOvershoot(curr, target, max_step) ==
    LET delta == target - curr
    IN  IF delta = 0 THEN target
        ELSE curr + max_step * (IF delta > 0 THEN 1 ELSE -1)

\* _rate_limit
RateLimit(curr, target, max_step) ==
    LET delta == target - curr
    IN  IF Abs(delta) <= max_step
        THEN target
        ELSE curr + max_step * (IF delta > 0 THEN 1 ELSE -1)

\* send_action, inside the lock: every ".pos" item of action is stored
StoreAction(desired, action) ==
    LET keys == DOMAIN action \cap PosKeys
    IN  [k \in DOMAIN desired \cup keys |-> IF k \in keys THEN action[k] ELSE desired[k]]

\* _step_loop: next_applied built from the snapshot of the two maps
NextApplied(applied, desired, max_step) ==
    [key \in DOMAIN applied \cup (DOMAIN desired \cap PosKeys) |->
        IF key \in PosKeys
        THEN LET curr == IF key \in DOMAIN applied THEN applied[key] ELSE 0
                 tgt == IF key \in DOMAIN desired THEN desired[key] ELSE curr
             IN  RateLimit(curr, tgt, max_step)
        ELSE applied[key]]

\* connect() has set both maps from the observation and started the thread
SimInit ==
    /\ CallsIdle
    /\ present = {}
    /\ inbuf = <<>>
    /\ scan = NoScan
    /\ poll = NoPoll
    /\ hist = NoHist
    /\ mem = DefaultMem
    /\ cli = NoCli
    /\ \E obs \in ObsChoices, v \in StepSample :
          sim = [pc |-> "snapshot", max_deg_per_step |-> MaxDegPerStep(v),
                 desired |-> obs, applied |-> obs,
                 snapshot |-> obs, next_applied |-> obs,
                 sends |-> 0, action |-> EmptyMap]

\* send_action(action): the update of _desired_deg under _action_lock
SendAction ==
    /\ sim.pc # "off"
    /\ sim.sends < MaxSends
    /\ \E action \in SimActions :
          sim' = [sim EXCEPT !.desired = StoreAction(@, action),
                             !.sends = @ + 1, !.action = action]
    /\ UNCHANGED <<callVars, busVars>>

\* _step_loop: the two maps are copied under the lock and next_applied is
\* built from the copies
StepSnapshot ==
    /\ sim.pc = "snapshot"
    /\ sim' = [sim EXCEPT !.pc = "commit",
                          !.snapshot = sim.desired,
                          !.next_applied = NextApplied(sim.applied, sim.desired,
                                                       sim.max_deg_per_step)]
    /\ UNCHANGED <<callVars, busVars>>

\* _step_loop: the targets are given to the simulator and next_applied is
\* committed under the lock; then the physics step and the next iteration
StepCommit ==
    /\ sim.pc = "commit"
    /\ sim' = [sim EXCEPT !.pc = "snapshot", !.applied = sim.next_applied]
    /\ UNCHANGED <<callVars, busVars>>

\* _step_loop: the simulator raises before the commit; except Exception
\* sleeps and the loop goes on with the next iteration
StepAbandon ==
    /\ sim.pc = "commit"
    /\ sim' = [sim EXCEPT !.pc = "snapshot"]
    /\ UNCHANGED <<callVars, busVars>>

SimNext ==
    \/ SendAction
    \/ StepSnapshot
    \/ StepCommit
    \/ StepAbandon

\* the stepping thread keeps running, and the simulator does not fail for ever
SimSpec ==
    /\ SimInit
    /\ [][SimNext]_vars
    /\ WF_vars(StepSnapshot)
    /\ SF_vars(StepCommit)

(***************************************************************************)
(* What the design document asks of a response                             *)
(***************************************************************************)
IsRead == op \in {"_read_bytes", "read"}

\* the bytes [ID, LEN, ERROR, DATA...] of a frame: all but header and last
Body(f) == SubSeq(f, 3, Len(f) - 1)

\* decode_ack succeeds: at least 6 bytes, header, expected id, and the sixth
\* byte is the checksum of [ID, LEN, ERROR]
AckAccepted(f, id) ==
    /\ Len(f) >= 6
    /\ f[1] = 255 /\ f[2] = 255
    /\ f[3] = id
    /\ f[6] = Checksum(<<f[3], f[4], f[5]>>)

\* decode_read_response succeeds: at least 6 + n bytes, header, expected id,
\* and the trailing byte is the checksum of [ID, LEN, ERROR, DATA...]
ReadAccepted(f, id, n) ==
    /\ Len(f) >= 6 + n
    /\ f[1] = 255 /\ f[2] = 255
    /\ f[3] = id
    /\ f[Len(f)] = Checksum(Body(f))

\* a frame as the device builds it: accepted as above, and LEN = n + 2
WellFormed(f, id, n) ==
    /\ Len(f) = 6 + n
    /\ f[1] = 255 /\ f[2] = 255
    /\ f[3] = id
    /\ f[4] = n + 2
    /\ f[Len(f)] = Checksum(Body(f))

\* the DATA bytes of a response to a read of n bytes
DataOf(f, n) == SubSeq(f, 6, 5 + n)

\* the position field of the WRITE that set_position sent
SentPosition == tx[1][6] + 256 * tx[1][7]

(***************************************************************************)
(* Claims                                                                  *)
(***************************************************************************)

\* C1: when the transport returns a well-formed READ response (6 + length
\* bytes, LEN = length + 2, CHK the checksum of [id, LEN, ERROR, DATA...]),
\* _read_bytes returns exactly the DATA bytes and the telemetry reader
\* returns the decoded value, not None.
C1_WellFormedReadReturnsData ==
    (IsRead /\ WellFormed(rx, call.servo_id, call.length)) =>
        /\ data.kind = "return"
        /\ data.value = DataOf(rx, call.length)
        /\ (op = "read" =>
              /\ ret.kind = "return"
              /\ ret.value = Decode(call.quantity, DataOf(rx, call.length)))

\* C2: the position set_position encodes is 0 for every angle <= 0, 2048 for
\* 180, 4095 for every angle >= 360, and always within 0..4095.
C2_PositionClampBoundaries ==
    op = "set_position" =>
        /\ (call.angle_deg <= 0 => SentPosition = 0)
        /\ (call.angle_deg = 180 => SentPosition = 2048)
        /\ (call.angle_deg >= 360 => SentPosition = 4095)
        /\ SentPosition \in 0..4095

C3_Frame(id, ins, params) ==
    /\ Len(tx) = 1
    /\ tx[1] = <<255, 255, id, Len(params) + 2, ins>> \o params
                 \o <<Checksum(<<id, Len(params) + 2, ins>> \o params)>>
    /\ Len(tx[1]) = Len(params) + 6

\* C3: send_packet writes, in one write, exactly the frame
\* [0xFF, 0xFF, ID, LEN, INSTRUCTION, PARAM..., CHECKSUM] with
\* LEN = len(params) + 2 and CHECKSUM the checksum of
\* [ID, LEN, INSTRUCTION, PARAM...]; it is len(params) + 6 bytes long. The
\* same holds of the PING that ping sends and the READ that _read_bytes sends.
C3_SendPacketFrame ==
    /\ op = "send_packet" => C3_Frame(call.servo_id, call.instruction, call.params)
    /\ op = "ping" => C3_Frame(call.servo_id, 1, <<>>)
    /\ IsRead => C3_Frame(call.servo_id, 2, <<call.start_addr, call.length>>)

C3_Witness ==
    /\ op = "send_packet"
    /\ call.instruction = 3
    /\ call.params = <<56, 255>>
    /\ tx = <<<<255, 255, call.servo_id, 4, 3, 56, 255, Checksum(<<call.servo_id, 4, 3, 56, 255>>)>>>>

\* C4: ping(id) returns true if and only if the read returned at least 6
\* bytes, the first two 0xFF 0xFF, the third equal to id, the sixth the
\* checksum of [ID, LEN, ERROR]; otherwise it returns false.
C4_PingIff ==
    op = "ping" =>
        /\ ret.kind = "return"
        /\ ret.value = AckAccepted(rx, call.servo_id)

C4_Witness ==
    /\ op = "ping"
    /\ ret.value = TRUE
    /\ AckAccepted(rx, call.servo_id)
    /\ rx[5] # 0

\* C5: _read_bytes returns a non-empty result only if the response has at
\* least 6 + length bytes, starts 0xFF 0xFF, has the id as third byte and its
\* last byte is the checksum of [ID, LEN, ERROR, DATA...], all data bytes
\* included; the bytes returned are then the data segment.
C5_ReadAcceptsOnlyVerifiedFrames ==
    (IsRead /\ data.kind = "return" /\ data.value # <<>>) =>
        /\ ReadAccepted(rx, call.servo_id, call.length)
        /\ data.value = DataOf(rx, call.length)

\* C6: whatever byte string the transport returns to a PING or a READ (any
\* length up to the requested one, any byte values, any LEN byte), the call
\* ends by returning and never by raising: ping returns false for every
\* response that is not a valid ack, and _read_bytes returns the empty result
\* (the reader None) for every response that is short or whose header or id
\* does not match. (What a read does with a checksum mismatch is C5 and C7.)
C6_MalformedNeverRaises ==
    /\ op = "ping" =>
          /\ ret.kind = "return"
          /\ (~AckAccepted(rx, call.servo_id) => ret.value = FALSE)
    /\ IsRead =>
          /\ data.kind = "return"
          /\ ret.kind \in {"return", "return_none"}
          /\ (\/ Len(rx) < 6 + call.length
              \/ rx[1] # 255 \/ rx[2] # 255
              \/ rx[3] # call.servo_id) =>
                 /\ data.value = <<>>
                 /\ (op = "read" => ret.kind = "return_none")

C7_OneBitFrom(f, positions, id, n) ==
    /\ Len(f) = 6 + n
    /\ \E p \in positions, k \in 0..7 : WellFormed([f EXCEPT ![p] = FlipBit(f[p], k)], id, n)

\* C7: a valid response frame with one bit of its checksum byte or of one
\* data byte inverted is rejected: ping returns false, _read_bytes returns
\* the empty result.
C7_SingleBitCorruptionRejected ==
    /\ (op = "ping" /\ C7_OneBitFrom(rx, {6}, call.servo_id, 0)) =>
          (ret.kind = "return" /\ ret.value = FALSE)
    /\ (IsRead /\ C7_OneBitFrom(rx, 6..(6 + call.length), call.servo_id, call.length)) =>
          (data.kind = "return" /\ data.value = <<>>)

C8_IsAck ==
    /\ op = "ping"
    /\ call.servo_id \in 0..253
    /\ rx = <<255, 255, call.servo_id, 2, 0, Checksum(<<call.servo_id, 2, 0>>)>>

C9_Complement(b) == 255 - (Sum(b) % 256)

\* C9: _checksum(b) is 255 - (sum(b) mod 256), a value in 0..255, and it is
\* the checksum both of the frame a request is sent as and of the ack that
\* ping accepts.
C9_Checksum ==
    /\ op = "_checksum" =>
          /\ ret.value = C9_Complement(call.data_bytes)
          /\ ret.value \in 0..255
    /\ tx # <<>> => tx[1][Len(tx[1])] = C9_Complement(Body(tx[1]))
    /\ (op = "ping" /\ ret.value = TRUE) => rx[6] = C9_Complement(<<rx[3], rx[4], rx[5]>>)

C9_Witness ==
    /\ op = "_checksum"
    /\ Sum(call.data_bytes) > 256
    /\ ret.value = 255 - (Sum(call.data_bytes) - 256)

\* C10: when the transport returns fewer bytes than requested (fewer than 6
\* to ping, fewer than 6 + length to _read_bytes, none included), ping
\* returns false and _read_bytes the empty result, whatever the bytes.
C10_ShortReadFails ==
    /\ (op = "ping" /\ Len(rx) < 6) => (ret.kind = "return" /\ ret.value = FALSE)
    /\ (IsRead /\ Len(rx) < 6 + call.length) =>
          /\ data.kind = "return"
          /\ data.value = <<>>
          /\ (op = "read" => ret.kind = "return_none")

C10_Witness ==
    /\ op = "read"
    /\ Len(rx) = 5 + call.length
    /\ rx[1] = 255 /\ rx[2] = 255 /\ rx[3] = call.servo_id
    /\ ret.kind = "return_none"

(***************************************************************************)
(* set_position: the fields of the WRITE it sends                          *)
(***************************************************************************)

\* the parameter bytes of the frame written (between INSTRUCTION and CHK)
SentParams == Slice(tx[1], 5, Len(tx[1]) - 1)

SentDuration == tx[1][8] + 256 * tx[1][9]

SentSpeed == tx[1][10] + 256 * tx[1][11]

Clamp(v, lo, hi) == IF v < lo THEN lo ELSE IF v > hi THEN hi ELSE v

\* round(angle / 360 * 4096) to the nearest integer, for a whole number of
\* degrees (no whole angle falls halfway between two position units)
RoundUnits(angle_deg) == (2 * angle_deg * 4096 + 360) \div 720

\* the value an optional integer argument stands for (its default is 0)
Given(arg) == IF arg = None THEN 0 ELSE arg[1]

\* C14: for every angle in [0, 360] the position set_position encodes is
\* clamp(round(angle / 360 * 4096), 0, 4095), rounded to the nearest integer.
C14_PositionRounded ==
    (op = "set_position" /\ call.angle_deg \in 0..360) =>
        SentPosition = Clamp(RoundUnits(call.angle_deg), 0, 4095)

\* C15: the duration set_position encodes is its argument clamped to
\* [0, 65535] and the speed its argument clamped to [0, 1023]; values in
\* range are sent unchanged.
C15_DurationSpeedClamped ==
    op = "set_position" =>
        /\ SentDuration = Clamp(Given(call.time_ms), 0, 65535)
        /\ SentSpeed = Clamp(Given(call.speed), 0, 1023)
        /\ (Given(call.time_ms) \in 0..65535 => SentDuration = Given(call.time_ms))
        /\ (Given(call.speed) \in 0..1023 => SentSpeed = Given(call.speed))

C15_Witness ==
    /\ op = "set_position"
    /\ call.time_ms = Some(-5) /\ SentDuration = 0
    /\ call.speed = Some(2000) /\ SentSpeed = 1023

\* C16: set_position never rejects an input: it completes, sends one WRITE
\* with every field in its range, duration and speed clamped to the nearest
\* bound, and an acceleration clamped into [0, 255] (above 255 sent as 255).
C16_ClampedNeverRejected ==
    op = "set_position" =>
        /\ ret.kind = "return_none"
        /\ Len(tx) = 1
        /\ tx[1][5] = 3
        /\ SentPosition \in 0..4095
        /\ SentDuration = Clamp(Given(call.time_ms), 0, 65535)
        /\ SentSpeed = Clamp(Given(call.speed), 0, 1023)
        /\ (call.acceleration # None =>
              SentParams[Len(SentParams)] = Clamp(call.acceleration[1], 0, 255))

\* the payload C17 describes: three little-endian 16-bit fields, then the
\* acceleration byte if and only if an acceleration was supplied
C17_Payload ==
    /\ SentParams[1] + 256 * SentParams[2] = PosVal(call.angle_deg)
    /\ SentParams[3] + 256 * SentParams[4] = TimeVal(call.time_ms)
    /\ SentParams[5] + 256 * SentParams[6] = SpeedVal(call.speed)
    /\ \A i \in 1..Len(SentParams) : SentParams[i] \in 0..255
    /\ (call.acceleration # None =>
          /\ Len(SentParams) = 7
          /\ SentParams[7] = call.acceleration[1] % 256)

\* C17 as stated: the payload is position, duration, speed as little-endian
\* 16-bit fields and the optional acceleration & 0xFF byte, 4 parameter bytes
\* long without an acceleration and 7 with one.
C17_PayloadLengths4And7 ==
    op = "set_position" =>
        /\ C17_Payload
        /\ (call.acceleration = None => Len(SentParams) = 4)

\* C17 amended: the same payload, 6 parameter bytes long without an
\* acceleration and 7 with one (the LEN byte of the frame is 8 or 9).
C17_PayloadLengths6And7 ==
    op = "set_position" =>
        /\ C17_Payload
        /\ (call.acceleration = None <=> Len(SentParams) = 6)
        /\ (call.acceleration # None <=> Len(SentParams) = 7)
        /\ tx[1][4] = Len(SentParams) + 2

C17_Witness ==
    /\ op = "set_position"
    /\ call.acceleration = Some(300)
    /\ call.angle_deg = 180
    /\ SentParams = <<0, 8, 220, 5, 244, 1, 44>>

\* the transport calls of one round trip: one write, then one read
RoundTrip(n) ==
    /\ Len(io) = 2
    /\ io[1].kind = "write"
    /\ io[2] = ReadCall(n)

\* C18: ping and each telemetry read make exactly one transport write
\* followed by exactly one transport read; set_position makes exactly one
\* write and no read, so nothing is taken from the receive side.
C18_OneRoundTrip ==
    /\ op = "ping" => (RoundTrip(6) /\ Len(tx) = 1 /\ io[1].n = Len(tx[1]))
    /\ IsRead => (RoundTrip(6 + call.length) /\ Len(tx) = 1 /\ io[1].n = Len(tx[1]))
    /\ op = "set_position" =>
          /\ io = <<WriteCall(Len(tx[1]))>>
          /\ Len(tx) = 1
          /\ rx = <<>>

C18_Witness ==
    /\ op = "read"
    /\ call.quantity = "position"
    /\ io = <<WriteCall(8), ReadCall(8)>>
    /\ Len(rx) = 8

(***************************************************************************)
(* scan_servos on a bus                                                    *)
(***************************************************************************)

\* the ids, in ascending order, whose ping returned True
FoundOf(results) ==
    SelectSeq([i \in 1..Len(results) |-> i], LAMBDA i : results[i])

\* C11: scan_servos(max_id) pings 1..max_id one at a time in ascending order
\* and returns exactly the ids whose ping returned True, ascending and
\* without duplicates; with devices 1, 5, 12 answering, scan_servos(20)
\* returns [1, 5, 12]; with no device it ends without error and returns [].
C11_ScanPingsAscending ==
    /\ \A i \in 1..Len(hist.pinged) : hist.pinged[i] = i
    /\ Len(hist.pinged) <= scan.max_id
    /\ Len(hist.pinged) - Len(hist.results) \in {0, 1}
    /\ scan.pc \in {"loop", "done"} => Len(hist.results) = Len(hist.pinged)
    /\ scan.found = FoundOf(hist.results)
    /\ \A i, j \in 1..Len(scan.found) : i < j => scan.found[i] < scan.found[j]
    /\ scan.pc = "done" => Len(hist.pinged) = scan.max_id
    /\ (scan.pc = "done" /\ present = {1, 5, 12} /\ scan.max_id = 20
            /\ hist.late # "happened") => scan.found = <<1, 5, 12>>
    /\ (scan.pc = "done" /\ present = {}) => scan.found = <<>>
    /\ scan.pc = "raised" => hist.faults # {}

C11_Witness ==
    /\ scan.pc = "done"
    /\ present = {1, 5, 12}
    /\ scan.max_id = 20
    /\ hist.pinged = [i \in 1..20 |-> i]
    /\ scan.found = <<1, 5, 12>>

\* C12: a transport write or read that fails for one id during scan_servos
\* counts as no response for that id: the scan goes on and returns a list.
C12_FaultTreatedAsNoResponse ==
    hist.faults # {} => scan.pc \in {"loop", "sent", "done"}

\* C13 as stated: for every max_id, scan_servos pings neither id 0 nor the
\* broadcast id 254.
C13_NeverPingsZeroNorBroadcast ==
    \A i \in 1..Len(hist.pinged) : hist.pinged[i] \notin {0, 254}

\* C13 amended: scan_servos pings only ids in 1..max_id, so never id 0, and
\* never the broadcast id 254 when max_id is at most 253 (the default).
C13_PingsOnlyScannedRange ==
    /\ \A i \in 1..Len(hist.pinged) : hist.pinged[i] \in 1..scan.max_id
    /\ scan.max_id <= MaxId =>
          \A i \in 1..Len(hist.pinged) : hist.pinged[i] \notin {0, 254}

C13_Witness ==
    /\ scan.pc = "done"
    /\ scan.max_id = MaxId
    /\ Len(hist.pinged) = MaxId
    /\ hist.pinged[1] = 1
    /\ hist.pinged[MaxId] = MaxId

\* C19: bytes of an earlier response that arrive after its read timed out
\* are never read as (part of) the response to a later request: the input
\* buffer holds none of them when the next instruction is written.
C19_LateBytesNeverConsumed ==
    /\ \A i \in 1..Len(hist.lastRead) : hist.lastRead[i].to = hist.lastBy
    /\ scan.pc = "sent" => \A i \in 1..Len(inbuf) : inbuf[i].to = ScanTag

\* a caller is between the write of its request and the return of its read
ScanOutstanding == scan.pc = "sent"

PollOutstanding == poll.pc = "sent"

\* C20: with two callers on one controller the round trips exclude each
\* other: at most one request is outstanding at any time, and each caller
\* reads only bytes sent in response to its own request.
C20_RoundTripsExclusive ==
    /\ ~(ScanOutstanding /\ PollOutstanding)
    /\ \A i \in 1..Len(hist.lastRead) : hist.lastRead[i].to = hist.lastBy

(***************************************************************************)
(* Telemetry registers and the acceptance of responses                     *)
(***************************************************************************)

\* the register table of the telemetry quantities: start address, length
C21_Register(q) ==
    CASE q = "position" -> <<56, 2>>
      [] q = "speed" -> <<58, 2>>
      [] q = "load" -> <<60, 2>>
      [] q = "voltage" -> <<62, 1>>
      [] q = "temperature" -> <<63, 1>>

\* the value of each quantity as a ratio, from its data bytes d; a load of
\* v / 10.23 is v * 100 / 1023
C21_Value(q, d) ==
    LET u16 == d[1] + 256 * d[2]
    IN  CASE q = "position" -> [num |-> u16 * 360, den |-> 4096]
          [] q = "speed" -> [num |-> u16 % 1024, den |-> 1]
          [] q = "load" -> [num |-> (u16 % 1024) * 100, den |-> 1023]
          [] q = "voltage" -> [num |-> d[1], den |-> 10]
          [] q = "temperature" -> [num |-> d[1], den |-> 1]

\* C21: each telemetry reader sends one READ with the parameters [start,
\* length] of its register (0x38/2, 0x3A/2, 0x3C/2, 0x3E/1, 0x3F/1) and
\* decodes the returned data as u16 * 360 / 4096, u16 masked to 10 bits,
\* masked u16 / 10.23, byte / 10 and the raw byte.
C21_RegistersAndDecoding ==
    op = "read" =>
        /\ tx = <<FullPacket(call.servo_id, 2, C21_Register(call.quantity))>>
        /\ Len(io) = 2 /\ io[1].kind = "write" /\ io[2].kind = "read"
        /\ call.length = C21_Register(call.quantity)[2]
        /\ ret.kind = "return" =>
              /\ ret.value = C21_Value(call.quantity, DataOf(rx, call.length))
              /\ (call.quantity = "speed" => ret.value.num \in 0..1023)

C21_Witness ==
    /\ op = "read"
    /\ call.quantity = "speed"
    /\ tx[1][6] = 58 /\ tx[1][7] = 2
    /\ ret.kind = "return"
    /\ rx[6] + 256 * rx[7] > 1023
    /\ ret.value.num = (rx[6] + 256 * rx[7]) % 1024

\* C25: when a ping ack is valid, the result of ping carries the ack's
\* ERROR byte: the result for an ack with a non-zero error differs from the
\* result for the same device's ack with error 0.
C25_AckErrorReported ==
    (op = "ping" /\ AckAccepted(rx, call.servo_id) /\ rx[5] # 0) =>
        ret # Returned(PingResult(call.servo_id, StatusFrame(call.servo_id, 0, <<>>)))

\* C27: ping returns false when the 6 bytes it reads back are the PING frame
\* it has just written (the echo of its own request).
C27_EchoRejected ==
    (op = "ping" /\ tx = <<rx>>) => (ret.kind = "return" /\ ret.value = FALSE)

\* C28: a response accepted by ping has LEN = 2 and one accepted by
\* _read_bytes has LEN = length + 2; with any other LEN it is rejected and
\* none of its bytes are returned as data.
C28_AcceptedLenConsistent ==
    /\ (op = "ping" /\ ret.value = TRUE) => rx[4] = 2
    /\ (IsRead /\ data.kind = "return") =>
          (data.value # <<>> => rx[4] = call.length + 2)

\* the checks _read_bytes makes on a response of at least 6 + n bytes:
\* header, id, and the byte at offset 2 + LEN against the checksum of the
\* LEN bytes from the id on
C29_ReadChecksPass(f, id, n) ==
    /\ Len(f) >= 6 + n
    /\ f[1] = 255 /\ f[2] = 255
    /\ f[3] = id
    /\ 2 + f[4] < Len(f)
    /\ f[3 + f[4]] = Checksum(SubSeq(f, 3, 2 + f[4]))

\* an ack with its ERROR byte set to e and its checksum byte to match
C29_WithError(f, e) == [f EXCEPT ![5] = e, ![6] = Checksum(<<f[3], f[4], e>>)]

OwnResult(k) ==
    ReaderResult(QuantityOrder[k],
                 ReadBytesResult(poll.servo_id, ByteLength(QuantityOrder[k]), hist.own[k]))

\* C22: the five readers are independent for one device: each returns a
\* value or None according to its own READ round trip alone, whatever the
\* reads before it did; a failed read never makes a later read fail.
C22_ReadersIndependent ==
    /\ poll.pc # "raised"
    /\ \A k \in 1..Len(poll.values) :
          /\ poll.values[k].kind = OwnResult(k).kind
          /\ poll.values[k].kind = "return" => poll.values[k].value = OwnResult(k).value

\* the read command has printed the line of quantity q
Printed(line) == \E i \in 1..Len(cli.out) : cli.out[i] = line

\* C23: the read command attempts all five reads, prints the position, and
\* prints each of speed, load, voltage and temperature if and only if that
\* quantity's own read succeeded, whether or not the position read did.
C23_ReadPrintsEachSucceeded ==
    (cli.pc = "exited" /\ cli.command = "read" /\ poll.pc = "done") =>
        /\ Len(poll.values) = 5
        /\ Printed("Angle") <=> poll.values[1].kind = "return"
        /\ Printed("Speed") <=> poll.values[2].kind = "return"
        /\ Printed("Load") <=> poll.values[3].kind = "return"
        /\ Printed("Voltage") <=> poll.values[4].kind = "return"
        /\ Printed("Temperature") <=> poll.values[5].kind = "return"

\* C24: the script exits with code 1 when the port cannot be opened and
\* with code 0 in every other run, a run in which a transport write or
\* read fails included.
C24_ExitCode ==
    cli.pc = "exited" =>
        cli.code = (IF Printed("Could not open port") THEN Some(1) ELSE Some(0))

\* C26: with a single caller, every byte a ping or a read consumes was sent
\* in reply to that same request: the status reply a device sends to a
\* WRITE, which set_position never reads, is not consumed by a later ping
\* or read, and each ping reports whether its device is on the bus.
C26_WriteRepliesNotConsumed ==
    /\ \A i \in 1..Len(hist.lastRead) :
          /\ hist.lastRead[i].to[1] # "move"
          /\ hist.lastRead[i].to = hist.lastBy
    /\ \A i \in 1..Len(hist.results) : hist.results[i] = (hist.pinged[i] \in present)

(***************************************************************************)
(* SO100Follower: rate limiting under interleaving                         *)
(***************************************************************************)

\* the value a map gives a key (applied.get(key, 0.0))
ValueOr0(map, key) == IF key \in DOMAIN map THEN map[key] ELSE 0

\* an iteration commits: every ".pos" value moves toward the desired value
\* of the iteration's snapshot by at most max_deg_per_step, never past it
C30_IterationLimited ==
    (sim.pc = "commit" /\ sim'.pc = "snapshot" /\ sim'.applied # sim.applied) =>
        \A key \in DOMAIN sim'.applied :
            LET old == ValueOr0(sim.applied, key)
                new == sim'.applied[key]
                want == IF key \in DOMAIN sim.snapshot THEN sim.snapshot[key] ELSE old
            IN  /\ Abs(new - old) <= sim.max_deg_per_step
                /\ (old <= new /\ new <= want) \/ (want <= new /\ new <= old)

\* the maps change only where the code changes them: applied in a commit,
\* desired in a send_action, which stores every ".pos" item of its action
\* and leaves the other keys as they were
C30_NoLostUpdate ==
    /\ sim'.applied # sim.applied => (sim.pc = "commit" /\ sim'.pc = "snapshot")
    /\ sim'.desired # sim.desired => sim'.sends = sim.sends + 1
    /\ sim'.sends = sim.sends + 1 =>
          /\ \A key \in DOMAIN sim'.action \cap PosKeys :
                key \in DOMAIN sim'.desired /\ sim'.desired[key] = sim'.action[key]
          /\ \A key \in DOMAIN sim.desired \ DOMAIN sim'.action :
                sim'.desired[key] = sim.desired[key]

\* every key's applied value equals its desired value
C30_Converged ==
    \A key \in DOMAIN sim.desired :
        key \in DOMAIN sim.applied /\ sim.applied[key] = sim.desired[key]

\* C30: under any interleaving of send_action with the stepping thread, each
\* iteration moves every applied ".pos" value toward the desired value it
\* read by at most max_deg_per_step and never past it, no send_action
\* update is lost, and once send_action is no longer called (with
\* max_deg_per_step > 0) every applied value eventually equals its desired
\* value and stays equal.
C30_RateLimitedConvergence ==
    /\ [][C30_IterationLimited /\ C30_NoLostUpdate]_vars
    /\ <>[](sim.max_deg_per_step > 0 => C30_Converged)

C30_Witness ==
    /\ sim.sends = MaxSends
    /\ sim.max_deg_per_step = 2
    /\ sim.action = [k \in {"shoulder_pan.pos"} |-> 3]
    /\ sim.desired = [k \in PosKeys |-> IF k = "gripper.pos" THEN 1 ELSE 3]
    /\ sim.applied = sim.desired

====
